---- MODULE Spec2Model ----
(***************************************************************************)
(* Drishyata: one polling cycle of live_monitor_view (src/main.py), the    *)
(* Sentinel location, topology discovery, node and Sentinel probes, and    *)
(* the two history tables written by save_health_data and                  *)
(* save_sentinel_data.                                                     *)
(*                                                                         *)
(* The network and the SQLite store are the environment: every call the    *)
(* code makes on them is an input of the action that models the call, and  *)
(* the action's body is what the code does with that outcome.              *)
(*                                                                         *)
(* Values the code keeps as Python ints or strings in one field (dbsize    *)
(* or 'n/a', connected_clients or 'n/a') are strings here, so that the     *)
(* comparisons the code makes (x != 'n/a') are comparisons of like values. *)
(* NULL stands for Python's None / SQL NULL.                               *)
(***************************************************************************)
EXTENDS Integers, Sequences, FiniteSets, TLC

VARIABLES
    pc,                 \* position of the session's script in the cycle
    outcome,            \* how the last finished cycle ended
    cycle,              \* number of cycles started
    now,                \* the wall clock read by time.strftime, in seconds
    health_snapshots,   \* table health_snapshots, rows in insertion order
    sentinel_snapshots, \* table sentinel_snapshots, rows in insertion order
    idx,                \* get_sentinel_connection: index of the next candidate
    tried,              \* get_sentinel_connection: candidates contacted, with outcome
    sentinel_conn,      \* index in SENTINELS of the connection returned, 0 for None
    monitored_masters,  \* result of sentinel_masters(), in dict order
    mi,                 \* index of the master being iterated
    all_nodes,          \* all_nodes of the current master
    ni,                 \* index of the node being probed
    node_infos,         \* node_infos of the current master
    master_status,
    slave_count,
    keys_count,
    total_memory,
    reports,            \* the cluster blocks rendered so far in this cycle
    si,                 \* index of the Sentinel being probed
    sentinel_infos,
    lastCall,           \* the network call or probe just made and its outcomes
    lastSave,           \* the store calls of the save just made and their outcomes
    db_init,            \* st.session_state['db_init']
    schema,             \* the tables that exist in the database file
    selected_cluster,   \* display_history_view: the cluster filter chosen
    history_df,         \* display_history_view: the node history, filtered
    total_records,
    total_pages,
    selected_page,
    page_df,            \* the page of history_df shown
    sentinel_history_df,
    world,              \* the live topology and what each call on it does
    writes,             \* the saves made so far: by which cycle, into which table
    peer_pc,            \* a second browser session: position of its script
    peer_mi,            \* the second session's index in its loop over masters
    peer_cycle          \* number of cycles the second session started

vars == <<pc, outcome, cycle, now, health_snapshots, sentinel_snapshots, idx,
          tried, sentinel_conn, monitored_masters, mi, all_nodes, ni,
          node_infos, master_status, slave_count, keys_count, total_memory,
          reports, si, sentinel_infos, lastCall, lastSave, db_init, schema,
          selected_cluster, history_df, total_records, total_pages,
          selected_page, page_df, sentinel_history_df, world, writes, peer_pc,
          peer_mi, peer_cycle>>

----------------------------------------------------------------------------
(* Bounds of the model *)

\* most replicas a replica-discovery reply lists
MaxSlaves == 1
\* last value of the clock
MaxTime == 1
\* number of configured Sentinel endpoints
NumSentinels == 2

(* Configuration and the values the environment answers with *)

\* SENTINELS (main.py:61): the configured Sentinel endpoints, in order
SentinelHosts == <<"sentinel-a", "sentinel-b", "sentinel-c", "sentinel-d">>
SENTINELS ==
    [i \in 1..NumSentinels |-> [host |-> SentinelHosts[i], port |-> 26378 + i]]

\* the masters a Sentinel may report, in the order of its reply
MasterPool ==
    << [name |-> "orders",   ip |-> "10.0.0.1", port |-> 6379],
       [name |-> "cache-01", ip |-> "10.0.0.2", port |-> 6380] >>

NULL == "NULL"
NA == "n/a"
\* no call or save was just made
None == [kind |-> "none", table |-> "none"]

\* the two tables init_db creates (main.py:73-100)
AllTables == {"health_snapshots", "sentinel_snapshots"}

\* the environment is not fixed: every call draws its outcome anew
AnyWorld == [fixed |-> FALSE]

Prefix(s, n) == SubSeq(s, 1, n)

\* the j-th replica Sentinel lists for a master
ReplicaOf(m, j) == [ip |-> m.ip, port |-> m.port + 100 * j, name |-> m.name]

Min(a, b) == IF a <= b THEN a ELSE b

----------------------------------------------------------------------------
(* The node probe: main.py:266-292 *)

\* what the three calls of one node probe may do, in the order the code makes
\* them: r.info(), r.dbsize(), r.ping().  "sparse" is an info reply without
\* connected_clients and used_memory_human.
InfoOutcomes == {"raise", "full", "sparse"}
DbsizeOutcomes == {"raise", "ok"}
PingOutcomes == {"raise", "true", "false"}
NodeOutcomes == [info : InfoOutcomes, dbsize : DbsizeOutcomes, ping : PingOutcomes]

\* the probe reaches its except branch (main.py:286)
ProbeRaises(o) == o.info = "raise" \/ o.dbsize = "raise" \/ o.ping = "raise"

\* info.get(key, 'n/a') on the reply of r.info() (main.py:271-272)
InfoGet(o, value) == IF o.info = "full" THEN value ELSE NA

\* NodeProbe that sets 'Healthy' without looking at the reply of r.ping()
NodeProbe_PingUnchecked(node, o) ==
    IF o.info = "raise" \/ o.dbsize = "raise" \/ o.ping = "raise"
    THEN [Role |-> node.role, Host |-> node.host, Port |-> node.port,
          Health |-> "Down/Error", Keys |-> NA, Clients |-> NA, Memory |-> NA]
    ELSE [Role |-> node.role, Host |-> node.host, Port |-> node.port,
          Health |-> "Healthy",
          Keys |-> "120", Clients |-> IF o.info = "full" THEN "3" ELSE NA,
          Memory |-> IF o.info = "full" THEN "1.2M" ELSE NA]

\* the dict appended to node_infos for one node (main.py:275-278, 287-290)
NodeProbe(node, o) ==
    IF ProbeRaises(o)
    THEN [Role |-> node.role, Host |-> node.host, Port |-> node.port,
          Health |-> "Down/Error", Keys |-> NA, Clients |-> NA, Memory |-> NA]
    ELSE [Role |-> node.role, Host |-> node.host, Port |-> node.port,
          Health |-> IF o.ping = "true" THEN "Healthy" ELSE "Unhealthy",
          Keys |-> "120", Clients |-> InfoGet(o, "3"),
          Memory |-> InfoGet(o, "1.2M")]

\* the calls the probe makes before it returns or raises
ProbeCalls(o) ==
    IF o.info = "raise" THEN <<"info">>
    ELSE IF o.dbsize = "raise" THEN <<"info", "dbsize">>
    ELSE <<"info", "dbsize", "ping">>

----------------------------------------------------------------------------
(* The Sentinel probe: main.py:331-349 *)

\* replies of rs.info('sentinel'): a dict that may lack the sentinel_* keys
SentinelStats ==
    { [sentinel_masters |-> 2, sentinel_tilt |-> 0, sentinel_running_scripts |-> 0],
      [sentinel_masters |-> 2, sentinel_tilt |-> 1, sentinel_running_scripts |-> 1],
      [redis_mode |-> "sentinel"] }
SentinelOutcomes ==
    [raised : {TRUE}, stats : {[redis_mode |-> "sentinel"]}, ping : {"true"}]
    \cup [raised : {FALSE}, stats : SentinelStats, ping : PingOutcomes]

\* dict.get(key, default)
Get(d, key, default) == IF key \in DOMAIN d THEN d[key] ELSE default

SentinelProbeRaises(o) == o.raised \/ o.ping = "raise"

\* SentinelProbe whose except branch records is_tilt 0
SentinelProbe_ErrorNoTilt(s, o) ==
    IF o.raised \/ o.ping = "raise"
    THEN [Host |-> s.host, Port |-> s.port, Status |-> "Error",
          masters_monitored |-> 0, is_tilt |-> 0, running_scripts |-> 0]
    ELSE [Host |-> s.host, Port |-> s.port,
          Status |-> IF o.ping = "true" THEN "Healthy" ELSE "Unhealthy",
          masters_monitored |-> Get(o.stats, "sentinel_masters", 0),
          is_tilt |-> Get(o.stats, "sentinel_tilt", 0),
          running_scripts |-> Get(o.stats, "sentinel_running_scripts", 0)]

\* the dict appended to sentinel_infos for one Sentinel (main.py:337-349)
SentinelProbe(s, o) ==
    IF SentinelProbeRaises(o)
    THEN [Host |-> s.host, Port |-> s.port, Status |-> "Error",
          masters_monitored |-> 0, is_tilt |-> 1, running_scripts |-> 0]
    ELSE [Host |-> s.host, Port |-> s.port,
          Status |-> IF o.ping = "true" THEN "Healthy" ELSE "Unhealthy",
          masters_monitored |-> Get(o.stats, "sentinel_masters", 0),
          is_tilt |-> Get(o.stats, "sentinel_tilt", 0),
          running_scripts |-> Get(o.stats, "sentinel_running_scripts", 0)]

----------------------------------------------------------------------------
(* The store: main.py:108-158 *)

\* NullIfNA that binds the value as it is
NullIfNA_Identity(x) == x

\* x if x != 'n/a' else None (main.py:118-119)
NullIfNA(x) == IF x # NA THEN x ELSE NULL

\* HealthRow that stores the node's own endpoint as its master's
HealthRow_OwnEndpoint(t, cluster_name, master_node, info) ==
    [timestamp |-> t, cluster_name |-> cluster_name, role |-> info.Role,
     host |-> info.Host, port |-> info.Port, health |-> info.Health,
     keys |-> IF info.Keys # NA THEN info.Keys ELSE NULL,
     clients |-> IF info.Clients # NA THEN info.Clients ELSE NULL,
     memory |-> info.Memory,
     master_host |-> info.Host, master_port |-> info.Port]

\* the tuple bound to the INSERT of save_health_data (main.py:120-126)
HealthRow(t, cluster_name, master_node, info) ==
    [timestamp |-> t, cluster_name |-> cluster_name, role |-> info.Role,
     host |-> info.Host, port |-> info.Port, health |-> info.Health,
     keys |-> NullIfNA(info.Keys), clients |-> NullIfNA(info.Clients),
     memory |-> info.Memory,
     master_host |-> master_node.host, master_port |-> master_node.port]

\* the tuple bound to the INSERT of save_sentinel_data (main.py:144-152)
SentinelRow(t, info) ==
    [timestamp |-> t, host |-> info.Host, port |-> info.Port,
     masters_monitored |-> info.masters_monitored, is_tilt |-> info.is_tilt,
     running_scripts |-> info.running_scripts,
     total_clusters_monitored |-> info.masters_monitored]

\* HealthInsertLoop without the inner try: the first failing INSERT ends the
\* loop, and the rows before it are committed
HealthInsertLoop_Abort(rows, fail, i, acc) ==
    LET firstFail == IF \E k \in 1..Len(rows) : k \in fail
                     THEN CHOOSE k \in 1..Len(rows) :
                             k \in fail /\ \A j \in 1..(k - 1) : j \notin fail
                     ELSE Len(rows) + 1
    IN  [pending |-> [k \in 1..(firstFail - 1) |-> rows[k]],
         attempted |-> [k \in 1..Min(firstFail, Len(rows)) |-> k],
         raised |-> FALSE]

\* The loop of save_health_data (main.py:116-128) from row i on: every
\* execute() is inside its own try, so a failing INSERT (i \in fail) is
\* skipped and the loop goes on.  pending: rows of the open transaction;
\* attempted: the rows execute() was called for.
RECURSIVE HealthInsertLoop(_, _, _, _)
HealthInsertLoop(rows, fail, i, acc) ==
    IF i > Len(rows) THEN acc
    ELSE HealthInsertLoop(rows, fail, i + 1,
            [pending |-> IF i \in fail THEN acc.pending
                         ELSE Append(acc.pending, rows[i]),
             attempted |-> Append(acc.attempted, i),
             raised |-> FALSE])

\* The loop of save_sentinel_data (main.py:143-152) from row i on: execute()
\* is not guarded, a failing INSERT leaves the loop for the outer except.
RECURSIVE SentinelInsertLoop(_, _, _, _)
SentinelInsertLoop(rows, fail, i, acc) ==
    IF i > Len(rows) THEN acc
    ELSE IF i \in fail
         THEN [pending |-> acc.pending,
               attempted |-> Append(acc.attempted, i), raised |-> TRUE]
         ELSE SentinelInsertLoop(rows, fail, i + 1,
                 [pending |-> Append(acc.pending, rows[i]),
                  attempted |-> Append(acc.attempted, i), raised |-> FALSE])

NoRows == [pending |-> <<>>, attempted |-> <<>>, raised |-> FALSE]

\* The table after one save: the transaction's rows are added by commit();
\* when connect(), an unguarded execute() or commit() raises, the outer except
\* reports it and close() drops the open transaction (main.py:129-134, 153-158).
Saved(table, openOk, loop, commitOk) ==
    IF openOk /\ ~loop.raised /\ commitOk THEN table \o loop.pending ELSE table

\* what one save did, for the record kept in lastSave
SaveRecord(name, table, rows, openOk, fail, loop, commitOk) ==
    [table |-> name, pre |-> table, rows |-> rows, openOk |-> openOk,
     fail |-> fail, commitOk |-> commitOk,
     attempted |-> IF openOk THEN loop.attempted ELSE <<>>,
     committed |-> openOk /\ ~loop.raised /\ commitOk]

\* rows save_health_data binds for a batch (main.py:114-126)
HealthRows(t, cluster_name, master_node, infos) ==
    [i \in 1..Len(infos) |-> HealthRow(t, cluster_name, master_node, infos[i])]

\* rows save_sentinel_data binds for a batch (main.py:142-152)
SentinelRows(t, infos) == [i \in 1..Len(infos) |-> SentinelRow(t, infos[i])]

\* save_health_data (main.py:108-134): the table after the call
save_health_data(table, rows, openOk, fail, commitOk) ==
    Saved(table, openOk, HealthInsertLoop(rows, fail, 1, NoRows), commitOk)

\* save_sentinel_data (main.py:136-158): the table after the call
save_sentinel_data(table, rows, openOk, fail, commitOk) ==
    Saved(table, openOk, SentinelInsertLoop(rows, fail, 1, NoRows), commitOk)

----------------------------------------------------------------------------
(* The cycle: live_monitor_view, main.py:216-372 *)

\* the state when a session's script is about to run: the database file has
\* the tables tbls, holding the rows h and s of earlier runs; made: init_db
\* has run in this session; w: the environment
InitSession(h, s, made, tbls, w) ==
    /\ pc = "Idle"
    /\ outcome = "None"
    /\ cycle = 0
    /\ now = 0
    /\ health_snapshots = h
    /\ sentinel_snapshots = s
    /\ idx = 1
    /\ tried = <<>>
    /\ sentinel_conn = 0
    /\ monitored_masters = <<>>
    /\ mi = 1
    /\ all_nodes = <<>>
    /\ ni = 1
    /\ node_infos = <<>>
    /\ master_status = "N/A"
    /\ slave_count = 0
    /\ keys_count = "0"
    /\ total_memory = "N/A"
    /\ reports = <<>>
    /\ si = 1
    /\ sentinel_infos = <<>>
    /\ lastCall = None
    /\ lastSave = None
    /\ db_init = made
    /\ schema = tbls
    /\ selected_cluster = "All"
    /\ history_df = <<>>
    /\ total_records = 0
    /\ total_pages = 0
    /\ selected_page = 1
    /\ page_df = <<>>
    /\ sentinel_history_df = <<>>
    /\ world = w
    /\ writes = <<>>
    /\ peer_pc = "Idle"
    /\ peer_mi = 1
    /\ peer_cycle = 0

\* the state after the session's first run has called init_db, which made
\* sure both tables exist (main.py:67-106, 474-476)
InitWith(h, s) == InitSession(h, s, TRUE, AllTables, AnyWorld)

\* a new database file
Init == InitWith(<<>>, <<>>)

\* rows an earlier run left in the tables
OldHealthRow ==
    [timestamp |-> -1, cluster_name |-> "orders", role |-> "Master",
     host |-> "10.0.0.1", port |-> 6379, health |-> "Healthy", keys |-> "120",
     clients |-> "3", memory |-> "1.2M", master_host |-> "10.0.0.1",
     master_port |-> 6379]
OldSentinelRow ==
    [timestamp |-> -1, host |-> "sentinel-a", port |-> 26379,
     masters_monitored |-> 2, is_tilt |-> 0, running_scripts |-> 0,
     total_clusters_monitored |-> 2]

\* a new database file, or one with history
InitHistory ==
    \E old \in BOOLEAN :
       InitWith(IF old THEN <<OldHealthRow>> ELSE <<>>,
                IF old THEN <<OldSentinelRow>> ELSE <<>>)

tables == <<health_snapshots, sentinel_snapshots, now>>
locate == <<idx, tried, sentinel_conn>>
cluster == <<all_nodes, ni, node_infos, master_status, slave_count, keys_count,
             total_memory>>
sentinels == <<si, sentinel_infos>>
history == <<selected_cluster, history_df, total_records, total_pages,
             selected_page, page_df, sentinel_history_df>>
peer == <<peer_pc, peer_mi, peer_cycle>>
\* what no step of a cycle changes
outside == <<db_init, schema, world, peer>>

\* main.py:479: main_placeholder = st.empty() drops what the last run showed
ClearView ==
    /\ selected_cluster' = "All"
    /\ history_df' = <<>>
    /\ total_records' = 0
    /\ total_pages' = 0
    /\ selected_page' = 1
    /\ page_df' = <<>>
    /\ sentinel_history_df' = <<>>

\* the script run of the 'Live Monitor' view starts (main.py:481-482, 216-224)
StartCycle(limit) ==
    /\ pc = "Idle"
    /\ db_init
    /\ cycle < limit
    /\ cycle' = cycle + 1
    /\ pc' = "Locate"
    /\ outcome' = "Running"
    /\ idx' = 1
    /\ tried' = <<>>
    /\ sentinel_conn' = 0
    /\ monitored_masters' = <<>>
    /\ mi' = 1
    /\ all_nodes' = <<>>
    /\ ni' = 1
    /\ node_infos' = <<>>
    /\ master_status' = "N/A"
    /\ slave_count' = 0
    /\ keys_count' = "0"
    /\ total_memory' = "N/A"
    /\ reports' = <<>>
    /\ si' = 1
    /\ sentinel_infos' = <<>>
    /\ lastCall' = None
    /\ lastSave' = None
    /\ ClearView
    /\ UNCHANGED <<tables, outside, writes>>

\* the cycle returns, or an exception leaves it
EndCycle(how) ==
    /\ pc' = "Idle"
    /\ outcome' = how

\* LocateTry returning the connection without looking at the ping's reply
LocateTry_AnyReply(o) ==
    /\ pc = "Locate"
    /\ idx <= Len(SENTINELS)
    /\ tried' = Append(tried, [candidate |-> idx, result |-> o])
    /\ IF o # "raise"
       THEN /\ sentinel_conn' = idx
            /\ idx' = idx
            /\ pc' = "Located"
       ELSE /\ sentinel_conn' = 0
            /\ idx' = idx + 1
            /\ pc' = IF idx = Len(SENTINELS) THEN "Located" ELSE "Locate"
    /\ UNCHANGED <<outcome, cycle, tables, monitored_masters, mi, cluster,
                   reports, sentinels, lastCall, lastSave, outside, history,
                   writes>>

\* get_sentinel_connection, one pass of its loop (main.py:176-183): the
\* candidate answers the ping ("pong"), answers it with a falsy value, or the
\* connection or the ping raises.  After the last candidate the function
\* returns None.
LocateTry(o) ==
    /\ pc = "Locate"
    /\ idx <= Len(SENTINELS)
    /\ tried' = Append(tried, [candidate |-> idx, result |-> o])
    /\ IF o = "pong"
       THEN /\ sentinel_conn' = idx
            /\ idx' = idx
            /\ pc' = "Located"
       ELSE /\ sentinel_conn' = 0
            /\ idx' = idx + 1
            /\ pc' = IF idx = Len(SENTINELS) THEN "Located" ELSE "Locate"
    /\ UNCHANGED <<outcome, cycle, tables, monitored_masters, mi, cluster,
                   reports, sentinels, lastCall, lastSave, outside, history,
                   writes>>

\* CheckConn without the return of main.py:228
CheckConn_NoReturn ==
    /\ pc = "Located"
    /\ tried' = <<>>
    /\ pc' = "Masters"
    /\ UNCHANGED <<outcome, cycle, tables, idx, sentinel_conn,
                   monitored_masters, mi, cluster, reports, sentinels,
                   lastCall, lastSave, outside, history, writes>>

\* main.py:224-228: the cycle ends when no Sentinel was found
CheckConn ==
    /\ pc = "Located"
    /\ IF sentinel_conn = 0
       THEN EndCycle("NoSentinel") /\ tried' = tried
       ELSE pc' = "Masters" /\ outcome' = outcome /\ tried' = <<>>
    /\ UNCHANGED <<cycle, tables, idx, sentinel_conn, monitored_masters, mi,
                   cluster, reports, sentinels, lastCall, lastSave, outside,
                   history, writes>>

\* MastersQuery without the return of main.py:239: an empty reply goes on to
\* the loop over no masters and to the Sentinels
MastersQuery_EmptyProceeds(reply) ==
    /\ pc = "Masters"
    /\ IF reply.raised
       THEN EndCycle("MastersError") /\ UNCHANGED monitored_masters
       ELSE /\ monitored_masters' = reply.masters
            /\ pc' = "Cluster"
            /\ outcome' = outcome
    /\ lastCall' = [kind |-> "masters", target |-> SENTINELS[sentinel_conn],
                    calls |-> <<"sentinel_masters">>, outcomes |-> reply]
    /\ UNCHANGED <<cycle, tables, locate, mi, cluster, reports, sentinels,
                   lastSave, outside, history, writes>>

\* main.py:230-241: sentinel_masters() raises, or answers with the masters
\* it monitors, each with its ip and port
MastersQuery(reply) ==
    /\ pc = "Masters"
    /\ IF reply.raised
       THEN EndCycle("MastersError") /\ UNCHANGED monitored_masters
       ELSE IF reply.masters = <<>>
       THEN EndCycle("NoMasters") /\ UNCHANGED monitored_masters
       ELSE /\ monitored_masters' = reply.masters
            /\ pc' = "Cluster"
            /\ outcome' = outcome
    /\ lastCall' = [kind |-> "masters", target |-> SENTINELS[sentinel_conn],
                    calls |-> <<"sentinel_masters">>, outcomes |-> reply]
    /\ UNCHANGED <<cycle, tables, locate, mi, cluster, reports, sentinels,
                   lastSave, outside, history, writes>>

\* BeginCluster that leaves the loop before its last master
BeginCluster_SkipLast ==
    /\ pc = "Cluster"
    /\ IF mi >= Len(monitored_masters)
       THEN /\ pc' = "Sentinels"
            /\ UNCHANGED <<mi, cluster>>
       ELSE /\ master_status' = "N/A"
            /\ slave_count' = 0
            /\ keys_count' = "0"
            /\ total_memory' = "N/A"
            /\ node_infos' = <<>>
            /\ all_nodes' = <<>>
            /\ ni' = 1
            /\ IF monitored_masters[mi].ip # NULL /\ monitored_masters[mi].port # 0
               THEN pc' = "Slaves" /\ mi' = mi
               ELSE pc' = "Cluster" /\ mi' = mi + 1
    /\ lastCall' = None
    /\ UNCHANGED <<outcome, cycle, tables, locate, monitored_masters,
                   reports, sentinels, lastSave, outside, history, writes>>

\* main.py:244-256: the next pass of the loop over monitored_masters, or the
\* loop's end
BeginCluster ==
    /\ pc = "Cluster"
    /\ IF mi > Len(monitored_masters)
       THEN /\ pc' = "Sentinels"
            /\ UNCHANGED <<mi, cluster>>
       ELSE /\ master_status' = "N/A"
            /\ slave_count' = 0
            /\ keys_count' = "0"
            /\ total_memory' = "N/A"
            /\ node_infos' = <<>>
            /\ all_nodes' = <<>>
            /\ ni' = 1
            /\ IF monitored_masters[mi].ip # NULL /\ monitored_masters[mi].port # 0
               THEN pc' = "Slaves" /\ mi' = mi
               ELSE pc' = "Cluster" /\ mi' = mi + 1
    /\ lastCall' = None
    /\ UNCHANGED <<outcome, cycle, tables, locate, monitored_masters,
                   reports, sentinels, lastSave, outside, history, writes>>

\* all_nodes (main.py:263)
AllNodes(m, n) ==
    <<[host |-> m.ip, port |-> m.port, role |-> "Master"]>>
    \o [j \in 1..n |-> [host |-> ReplicaOf(m, j).ip,
                        port |-> ReplicaOf(m, j).port, role |-> "Slave"]]

\* main.py:257-263, 294-295: sentinel_slaves(master_name) raises, or lists n
\* replicas
SlavesQuery(reply) ==
    /\ pc = "Slaves"
    /\ IF reply.raised
       THEN /\ master_status' = "Discovery Error"
            /\ pc' = "SaveHealth"
            /\ UNCHANGED <<slave_count, all_nodes>>
       ELSE /\ slave_count' = reply.n
            /\ all_nodes' = AllNodes(monitored_masters[mi], reply.n)
            /\ pc' = "Probe"
            /\ UNCHANGED master_status
    /\ lastCall' = [kind |-> "slaves", target |-> SENTINELS[sentinel_conn],
                    calls |-> <<"sentinel_slaves">>, outcomes |-> reply]
    /\ UNCHANGED <<outcome, cycle, tables, locate, monitored_masters, mi, ni,
                   node_infos, keys_count, total_memory, reports, sentinels,
                   lastSave, outside, history, writes>>

\* ProbeNode that leaves out the node whose probe raised
ProbeNode_SkipFailed(o) ==
    /\ pc = "Probe"
    /\ ni <= Len(all_nodes)
    /\ LET node == all_nodes[ni]
           info == NodeProbe(node, o)
       IN  /\ node_infos' = IF ProbeRaises(o) THEN node_infos
                             ELSE Append(node_infos, info)
           /\ lastCall' = [kind |-> "node", target |-> node,
                           calls |-> ProbeCalls(o), outcomes |-> o]
           /\ IF node.role = "Master"
              THEN /\ master_status' = info.Health
                   /\ IF ProbeRaises(o)
                      THEN UNCHANGED <<keys_count, total_memory>>
                      ELSE /\ keys_count' = info.Keys
                           /\ total_memory' = info.Memory
              ELSE UNCHANGED <<master_status, keys_count, total_memory>>
    /\ ni' = ni + 1
    /\ pc' = IF ni = Len(all_nodes) THEN "SaveHealth" ELSE "Probe"
    /\ UNCHANGED <<outcome, cycle, tables, locate, monitored_masters, mi,
                   all_nodes, slave_count, reports, sentinels, lastSave,
                   outside, history, writes>>

\* ProbeNode that tries a node again when its probe raised
ProbeNode_Retry(o) ==
    /\ pc = "Probe"
    /\ ni <= Len(all_nodes)
    /\ LET node == all_nodes[ni]
           info == NodeProbe(node, o)
       IN  /\ node_infos' = IF ProbeRaises(o) THEN node_infos
                             ELSE Append(node_infos, info)
           /\ lastCall' = [kind |-> "node", target |-> node,
                           calls |-> ProbeCalls(o), outcomes |-> o]
           /\ IF node.role = "Master" /\ ~ProbeRaises(o)
              THEN /\ master_status' = info.Health
                   /\ keys_count' = info.Keys
                   /\ total_memory' = info.Memory
              ELSE UNCHANGED <<master_status, keys_count, total_memory>>
    /\ ni' = IF ProbeRaises(o) THEN ni ELSE ni + 1
    /\ pc' = IF ni = Len(all_nodes) /\ ~ProbeRaises(o) THEN "SaveHealth"
             ELSE "Probe"
    /\ UNCHANGED <<outcome, cycle, tables, locate, monitored_masters, mi,
                   all_nodes, slave_count, reports, sentinels, lastSave,
                   outside, history, writes>>

\* ProbeNode that takes the status of the cluster from every node it probes
ProbeNode_AnyRole(o) ==
    /\ pc = "Probe"
    /\ ni <= Len(all_nodes)
    /\ LET node == all_nodes[ni]
           info == NodeProbe(node, o)
       IN  /\ node_infos' = Append(node_infos, info)
           /\ lastCall' = [kind |-> "node", target |-> node,
                           calls |-> ProbeCalls(o), outcomes |-> o]
           /\ IF node.role \in {"Master", "Slave"}
              THEN /\ master_status' = info.Health
                   /\ IF ProbeRaises(o)
                      THEN UNCHANGED <<keys_count, total_memory>>
                      ELSE /\ keys_count' = info.Keys
                           /\ total_memory' = info.Memory
              ELSE UNCHANGED <<master_status, keys_count, total_memory>>
    /\ ni' = ni + 1
    /\ pc' = IF ni = Len(all_nodes) THEN "SaveHealth" ELSE "Probe"
    /\ UNCHANGED <<outcome, cycle, tables, locate, monitored_masters, mi,
                   all_nodes, slave_count, reports, sentinels, lastSave,
                   outside, history, writes>>

\* main.py:266-292: one pass of the loop over all_nodes
ProbeNode(o) ==
    /\ pc = "Probe"
    /\ ni <= Len(all_nodes)
    /\ LET node == all_nodes[ni]
           info == NodeProbe(node, o)
       IN  /\ node_infos' = Append(node_infos, info)
           /\ lastCall' = [kind |-> "node", target |-> node,
                           calls |-> ProbeCalls(o), outcomes |-> o]
           /\ IF node.role = "Master"
              THEN /\ master_status' = info.Health
                   /\ IF ProbeRaises(o)
                      THEN UNCHANGED <<keys_count, total_memory>>
                      ELSE /\ keys_count' = info.Keys
                           /\ total_memory' = info.Memory
              ELSE UNCHANGED <<master_status, keys_count, total_memory>>
    /\ ni' = ni + 1
    /\ pc' = IF ni = Len(all_nodes) THEN "SaveHealth" ELSE "Probe"
    /\ UNCHANGED <<outcome, cycle, tables, locate, monitored_masters, mi,
                   all_nodes, slave_count, reports, sentinels, lastSave,
                   outside, history, writes>>

\* an INSERT into a table init_db did not create raises
TableMissing(name) == name \notin schema

\* one save, for the record kept in writes: the session and cycle that made
\* it, the table, and the number of rows it added
SaveLog(session, c, name, before, after) ==
    [session |-> session, cycle |-> c, table |-> name,
     rows |-> Len(after) - Len(before)]

\* time.strftime: the clock has moved on by dt since it was last read
Clock(dt) == Min(now + dt, MaxTime)

\* main.py:297: save_health_data(master_name, master_node, node_infos)
SaveHealth(s, dt) ==
    /\ pc = "SaveHealth"
    /\ s.fail \subseteq 1..Len(node_infos)
    /\ (TableMissing("health_snapshots") /\ s.openOk) =>
          s.fail = 1..Len(node_infos)
    /\ LET m == monitored_masters[mi]
           t == IF s.openOk THEN Clock(dt) ELSE now
           rows == HealthRows(t, m.name, [host |-> m.ip, port |-> m.port],
                              node_infos)
       IN  /\ now' = t
           /\ health_snapshots' =
                 save_health_data(health_snapshots, rows, s.openOk, s.fail,
                                  s.commitOk)
           /\ lastSave' = SaveRecord("health_snapshots", health_snapshots, rows,
                                     s.openOk, s.fail,
                                     HealthInsertLoop(rows, s.fail, 1, NoRows),
                                     s.commitOk)
           /\ writes' = Append(writes,
                 SaveLog(1, cycle, "health_snapshots", health_snapshots,
                         health_snapshots'))
    /\ lastCall' = None
    /\ pc' = "Display"
    /\ UNCHANGED <<outcome, cycle, sentinel_snapshots, locate,
                   monitored_masters, mi, cluster, reports, sentinels,
                   outside, history>>

\* main.py:313-318: st.dataframe renders pd.DataFrame(node_infos) styled with
\* .style.map(style_health_status, subset=['Health']).  A frame built from an
\* empty list has no column 'Health': selecting the subset raises KeyError
\* when the styles are computed for rendering, and nothing around the call
\* catches it.
NodeTableRaises(infos) == infos = <<>>

\* main.py:299-321: the cluster's block: its header and four metric tiles,
\* then the node details table
Display ==
    /\ pc = "Display"
    /\ reports' = Append(reports,
          [clusterName |-> monitored_masters[mi].name,
           masterStatus |-> master_status,
           replicaCount |-> slave_count,
           masterKeyCount |-> keys_count,
           masterMemory |-> total_memory,
           nodeSnapshots |-> node_infos])
    /\ lastSave' = None
    /\ IF NodeTableRaises(node_infos)
       THEN EndCycle("Raised") /\ mi' = mi
       ELSE pc' = "Cluster" /\ mi' = mi + 1 /\ outcome' = outcome
    /\ UNCHANGED <<cycle, tables, locate, monitored_masters, cluster,
                   sentinels, lastCall, outside, history, writes>>

\* main.py:331-349: one pass of the loop over SENTINELS
ProbeSentinel(o) ==
    /\ pc = "Sentinels"
    /\ si <= Len(SENTINELS)
    /\ sentinel_infos' = Append(sentinel_infos, SentinelProbe(SENTINELS[si], o))
    /\ lastCall' = [kind |-> "sentinel", target |-> SENTINELS[si],
                    calls |-> IF o.raised THEN <<"info">> ELSE <<"info", "ping">>,
                    outcomes |-> o]
    /\ si' = si + 1
    /\ pc' = IF si = Len(SENTINELS) THEN "SaveSentinel" ELSE "Sentinels"
    /\ UNCHANGED <<outcome, cycle, tables, locate, monitored_masters, mi,
                   cluster, reports, lastSave, outside, history, writes>>

\* main.py:351-352: save_sentinel_data(sentinel_infos); SENTINELS is not
\* empty, and so neither is sentinel_infos
SaveSentinel(s, dt) ==
    /\ pc = "SaveSentinel"
    /\ sentinel_infos # <<>>
    /\ s.fail \subseteq 1..Len(sentinel_infos)
    /\ (TableMissing("sentinel_snapshots") /\ s.openOk) => s.fail = {1}
    /\ LET t == IF s.openOk THEN Clock(dt) ELSE now
           rows == SentinelRows(t, sentinel_infos)
       IN  /\ now' = t
           /\ sentinel_snapshots' =
                 save_sentinel_data(sentinel_snapshots, rows, s.openOk, s.fail,
                                    s.commitOk)
           /\ lastSave' = SaveRecord("sentinel_snapshots", sentinel_snapshots,
                                     rows, s.openOk, s.fail,
                                     SentinelInsertLoop(rows, s.fail, 1, NoRows),
                                     s.commitOk)
           /\ writes' = Append(writes,
                 SaveLog(1, cycle, "sentinel_snapshots", sentinel_snapshots,
                         sentinel_snapshots'))
    /\ lastCall' = None
    /\ pc' = "Render"
    /\ UNCHANGED <<outcome, cycle, health_snapshots, locate,
                   monitored_masters, mi, cluster, reports, sentinels,
                   outside, history>>

\* main.py:353-372: the Sentinel tiles and table, the caption; the cycle
\* returns
Render ==
    /\ pc = "Render"
    /\ EndCycle("Done")
    /\ lastSave' = None
    /\ UNCHANGED <<cycle, tables, locate, monitored_masters, mi, cluster,
                   reports, sentinels, lastCall, outside, history, writes>>

----------------------------------------------------------------------------
(* The session: main.py:473-487, and init_db, main.py:67-106 *)

\* init_db recreating the table
CreateTableIfNotExists_Recreate(exists, rows) == <<>>

\* CREATE TABLE IF NOT EXISTS (main.py:73-100): the rows of the table after
\* the statement; a table that is not there is created empty
CreateTableIfNotExists(exists, rows) == IF exists THEN rows ELSE <<>>

\* what the calls of init_db may do: connect() raises; the first CREATE runs
\* and the second raises; both run
InitDbOutcomes == {"raise", "first", "ok"}

\* main.py:474-476 and init_db: the first run of a session's script makes sure
\* the tables exist; init_db reports an exception and returns, and the flag
\* is set in either case
InitDb(o) ==
    /\ pc = "Idle"
    /\ ~db_init
    /\ db_init' = TRUE
    /\ IF o = "raise"
       THEN UNCHANGED <<schema, health_snapshots, sentinel_snapshots>>
       ELSE /\ health_snapshots' =
                 CreateTableIfNotExists(~TableMissing("health_snapshots"),
                                        health_snapshots)
            /\ IF o = "first"
               THEN /\ schema' = schema \cup {"health_snapshots"}
                    /\ UNCHANGED sentinel_snapshots
               ELSE /\ schema' = schema \cup AllTables
                    /\ sentinel_snapshots' =
                         CreateTableIfNotExists(
                            ~TableMissing("sentinel_snapshots"),
                            sentinel_snapshots)
    /\ UNCHANGED <<pc, outcome, cycle, now, locate, monitored_masters, mi,
                   cluster, reports, sentinels, lastCall, lastSave, history,
                   world, writes, peer>>

\* the browser opens the application anew: a session with an empty
\* st.session_state (main.py:474)
NewSession ==
    /\ pc = "Idle"
    /\ db_init
    /\ db_init' = FALSE
    /\ ClearView
    /\ UNCHANGED <<pc, outcome, cycle, tables, locate, monitored_masters, mi,
                   cluster, reports, sentinels, lastCall, lastSave, schema,
                   world, writes, peer>>

----------------------------------------------------------------------------
(* The history view: main.py:160-170, 374-444 *)

\* PAGE_SIZE (main.py:378)
PAGE_SIZE == 2

\* ORDER BY timestamp DESC: the row r, read after the rows of acc, takes its
\* place among them.  SQL leaves the order of rows with equal timestamps
\* open: they come out in the order read (laterFirst = FALSE) or in the
\* opposite order.
RECURSIVE InsertByTimestamp(_, _, _, _)
InsertByTimestamp(acc, r, laterFirst, i) ==
    IF i > Len(acc) THEN Append(acc, r)
    ELSE IF acc[i].timestamp < r.timestamp
            \/ (laterFirst /\ acc[i].timestamp = r.timestamp)
         THEN SubSeq(acc, 1, i - 1) \o <<r>> \o SubSeq(acc, i, Len(acc))
         ELSE InsertByTimestamp(acc, r, laterFirst, i + 1)

RECURSIVE OrderByTimestampDesc(_, _, _, _)
OrderByTimestampDesc(rows, laterFirst, i, acc) ==
    IF i > Len(rows) THEN acc
    ELSE OrderByTimestampDesc(rows, laterFirst, i + 1,
                              InsertByTimestamp(acc, rows[i], laterFirst, 1))

\* get_redis_history_data (main.py:160-164): every column but id
get_redis_history_data(table, laterFirst) ==
    OrderByTimestampDesc(table, laterFirst, 1, <<>>)

\* get_sentinel_history_data (main.py:166-170): id and the columns named; id
\* is the row's rank in insertion order (AUTOINCREMENT, and no row is deleted)
get_sentinel_history_data(table, laterFirst) ==
    OrderByTimestampDesc(
       [i \in 1..Len(table) |->
          [id |-> i, timestamp |-> table[i].timestamp, host |-> table[i].host,
           port |-> table[i].port,
           masters_monitored |-> table[i].masters_monitored,
           is_tilt |-> table[i].is_tilt,
           running_scripts |-> table[i].running_scripts]],
       laterFirst, 1, <<>>)

\* history_df['cluster_name'].unique() (main.py:392)
unique_clusters(df) == {df[i].cluster_name : i \in 1..Len(df)}

\* the options of the cluster selector (main.py:393)
ClusterOptions(df) == {"All"} \cup unique_clusters(df)

\* FilterByCluster that keeps every row
FilterByCluster_None(df, selected) == df

\* main.py:395-396
FilterByCluster(df, selected) ==
    IF selected # "All"
    THEN SelectSeq(df, LAMBDA r : r.cluster_name = selected)
    ELSE df

\* math.ceil(total_records / PAGE_SIZE) (main.py:399)
TotalPages(n) == (n + PAGE_SIZE - 1) \div PAGE_SIZE

\* the options of the page selector (main.py:406)
PageOptions(pages) == IF pages > 0 THEN 1..pages ELSE {1}

\* PageOf whose pages start one row early
PageOf_Overlap(df, page) ==
    LET start_index == (page - 1) * (PAGE_SIZE - 1)
        end_index == start_index + PAGE_SIZE
    IN  SubSeq(df, start_index + 1, Min(end_index, Len(df)))

\* history_df.iloc[start_index:end_index] (main.py:408-410)
PageOf(df, page) ==
    LET start_index == (page - 1) * PAGE_SIZE
        end_index == start_index + PAGE_SIZE
    IN  SubSeq(df, start_index + 1, Min(end_index, Len(df)))

\* what the two queries of the view may do: get_redis_history_data raises,
\* get_sentinel_history_data raises, or both answer
HistoryOutcomes == {"redis_raises", "sentinel_raises", "ok"}

\* display_history_view (main.py:374-444), one run of the script in the
\* 'History Viewer' view.  selected and page are what the two selectors
\* return; nothing catches an exception of a query, which ends the run.
HistoryView(o, laterFirst, selected, page) ==
    /\ pc = "Idle"
    /\ db_init
    /\ TableMissing("health_snapshots") => o = "redis_raises"
    /\ TableMissing("sentinel_snapshots") => o # "ok"
    /\ IF o = "redis_raises"
       THEN ClearView
       ELSE LET df == get_redis_history_data(health_snapshots, laterFirst)
                filtered == FilterByCluster(df, selected)
            IN  /\ sentinel_history_df' =
                      IF o = "sentinel_raises" THEN <<>>
                      ELSE get_sentinel_history_data(sentinel_snapshots,
                                                     laterFirst)
                /\ IF df = <<>>
                   THEN /\ selected_cluster' = "All"
                        /\ history_df' = <<>>
                        /\ total_records' = 0
                        /\ total_pages' = 0
                        /\ selected_page' = 1
                        /\ page_df' = <<>>
                   ELSE /\ selected \in ClusterOptions(df)
                        /\ page \in PageOptions(TotalPages(Len(filtered)))
                        /\ selected_cluster' = selected
                        /\ history_df' = filtered
                        /\ total_records' = Len(filtered)
                        /\ total_pages' = TotalPages(Len(filtered))
                        /\ selected_page' = page
                        /\ page_df' = PageOf(filtered, page)
    /\ UNCHANGED <<pc, outcome, cycle, tables, locate, monitored_masters, mi,
                   cluster, reports, sentinels, lastCall, lastSave, outside,
                   writes>>

----------------------------------------------------------------------------
(* Specifications *)

\* replies of sentinel_masters(): it raises, or lists the first k masters
MastersReplies ==
    {[raised |-> TRUE, masters |-> <<>>]}
    \cup {[raised |-> FALSE, masters |-> Prefix(MasterPool, k)] :
             k \in 0..Len(MasterPool)}

\* replies of sentinel_slaves(): it raises, or lists n replicas
SlavesReplies ==
    {[raised |-> TRUE, n |-> 0]} \cup {[raised |-> FALSE, n |-> n] : n \in 0..MaxSlaves}

LocateOutcomes == {"pong", "falsy", "raise"}

\* One cycle in which the location, the two discovery queries, the node
\* probes and the saves may fail; a node either answers all three calls in
\* full or its probe raises, and every Sentinel answers its probe.
CycleNodeOutcomes ==
    {o \in NodeOutcomes : o.info # "sparse" /\ o.dbsize = "ok" /\ o.ping = "true"}
CycleSentinelOutcomes ==
    {o \in SentinelOutcomes :
        o.ping = "true" /\ Get(o.stats, "sentinel_tilt", 1) = 0}

\* outcomes of the store calls of one save_health_data: connect() raises and
\* nothing else is called, or each INSERT of the batch and commit() succeeds
\* or raises
HealthSaveOutcomes(n) ==
    {[openOk |-> FALSE, fail |-> {}, commitOk |-> TRUE]}
    \cup [openOk : {TRUE}, fail : SUBSET (1..n), commitOk : BOOLEAN]

\* outcomes of the store calls of one save_sentinel_data: connect() raises, or
\* the i-th INSERT is the first to raise and nothing else is called, or every
\* INSERT succeeds and commit() succeeds or raises
SentinelSaveOutcomes(n) ==
    {[openOk |-> FALSE, fail |-> {}, commitOk |-> TRUE]}
    \cup {[openOk |-> TRUE, fail |-> {i}, commitOk |-> TRUE] : i \in 1..n}
    \cup [openOk : {TRUE}, fail : {{}}, commitOk : BOOLEAN]

Next ==
    \/ StartCycle(1)
    \/ \E o \in LocateOutcomes : LocateTry(o)
    \/ CheckConn
    \/ \E r \in MastersReplies : MastersQuery(r)
    \/ BeginCluster
    \/ \E r \in SlavesReplies : SlavesQuery(r)
    \/ \E o \in CycleNodeOutcomes : ProbeNode(o)
    \/ \E s \in HealthSaveOutcomes(Len(node_infos)) : SaveHealth(s, 0)
    \/ Display
    \/ \E o \in CycleSentinelOutcomes : ProbeSentinel(o)
    \/ \E s \in SentinelSaveOutcomes(Len(sentinel_infos)) : SaveSentinel(s, 0)
    \/ Render

Spec == Init /\ [][Next]_vars

\* replies of sentinel_masters() that list one master
OneMasterReplies ==
    {[raised |-> FALSE, masters |-> Prefix(MasterPool, 1)]}

\* One cycle over a single master in which every call of a node probe and
\* every call of save_health_data has each of its outcomes, and the clock
\* moves between the saves.
NextNodes ==
    \/ StartCycle(1)
    \/ LocateTry("pong")
    \/ CheckConn
    \/ \E r \in OneMasterReplies : MastersQuery(r)
    \/ BeginCluster
    \/ \E r \in SlavesReplies : SlavesQuery(r)
    \/ \E o \in NodeOutcomes : ProbeNode(o)
    \/ \E s \in HealthSaveOutcomes(Len(node_infos)), dt \in {0, 1} :
          SaveHealth(s, dt)
    \/ Display
    \/ \E o \in CycleSentinelOutcomes : ProbeSentinel(o)
    \/ \E s \in SentinelSaveOutcomes(Len(sentinel_infos)), dt \in {0, 1} :
          SaveSentinel(s, dt)
    \/ Render

SpecNodes == InitHistory /\ [][NextNodes]_vars

\* One cycle over a single master whose node batch is saved, in which every
\* call of a Sentinel probe and every call of save_sentinel_data has each of
\* its outcomes.
NominalSaveOutcomes == {[openOk |-> TRUE, fail |-> {}, commitOk |-> TRUE]}

NextSentinels ==
    \/ StartCycle(1)
    \/ LocateTry("pong")
    \/ CheckConn
    \/ \E r \in OneMasterReplies : MastersQuery(r)
    \/ BeginCluster
    \/ \E r \in SlavesReplies : SlavesQuery(r)
    \/ \E o \in CycleNodeOutcomes : ProbeNode(o)
    \/ \E s \in NominalSaveOutcomes : SaveHealth(s, 0)
    \/ Display
    \/ \E o \in SentinelOutcomes : ProbeSentinel(o)
    \/ \E s \in SentinelSaveOutcomes(Len(sentinel_infos)), dt \in {0, 1} :
          SaveSentinel(s, dt)
    \/ Render

SpecSentinels == InitHistory /\ [][NextSentinels]_vars

\* most rows of earlier runs in the node history when the session starts
MaxOld == 4

\* a row an earlier run wrote at time t for the master of cluster name
OldRow(t, name) == [OldHealthRow EXCEPT !.timestamp = t, !.cluster_name = name]

\* the clusters of earlier runs; one bears the name of the cluster selector's
\* first option
OldNames == {"cache-01", "All"}

\* the node histories earlier runs can have left: rows in the order they
\* were inserted, their timestamps (before this run's) not decreasing
OldHistories ==
    UNION {
      {h \in [1..n -> {OldRow(t, c) : t \in {-2, -1}, c \in OldNames}] :
          \A i \in 1..(n - 1) : h[i].timestamp <= h[i + 1].timestamp}
      : n \in 0..MaxOld}

\* a database file that is not there yet, or one with the history of earlier
\* runs; the session has not run its script yet
InitStored ==
    \/ InitSession(<<>>, <<>>, FALSE, {}, AnyWorld)
    \/ \E h \in OldHistories :
          InitSession(h, <<OldSentinelRow>>, FALSE, AllTables, AnyWorld)

\* Sessions that open the history view over a stored history.
NextHistory ==
    \/ \E o \in InitDbOutcomes : InitDb(o)
    \/ NewSession
    \/ \E o \in HistoryOutcomes, laterFirst \in BOOLEAN,
          selected \in ClusterOptions(health_snapshots),
          page \in PageOptions(TotalPages(Len(health_snapshots))) :
          HistoryView(o, laterFirst, selected, page)

SpecHistory == InitStored /\ [][NextHistory]_vars

\* most polling cycles of a run of the application
MaxCycles == 2

\* a node that answers every call of its probe
NodeAnswers == [info |-> "full", dbsize |-> "ok", ping |-> "true"]

\* A topology that stays as it is from one cycle to the next: the reply of
\* sentinel_masters(), the reply of sentinel_slaves() for its master, and
\* what the probe of each node of the cluster does.
WorldNodes(r) ==
    {g \in [1..(MaxSlaves + 1) -> CycleNodeOutcomes] :
        \A k \in 1..(MaxSlaves + 1) :
           (r.raised \/ k > r.n + 1) => g[k] = NodeAnswers}
Worlds ==
    UNION {
      {[fixed |-> TRUE, masters |-> m, slaves |-> r, nodes |-> f] :
          m \in OneMasterReplies, f \in WorldNodes(r)}
      : r \in SlavesReplies}

\* the session has not run its script yet; the database file is not there,
\* or holds the rows of an earlier run
InitRuns ==
    \E w \in Worlds :
       \/ InitSession(<<>>, <<>>, FALSE, {}, w)
       \/ InitSession(<<OldHealthRow>>, <<OldSentinelRow>>, FALSE, AllTables, w)

\* what a save into a table that is not there does: connect() raises, or
\* INSERT raises
MissingTableSave(n, every) ==
    {[openOk |-> FALSE, fail |-> {}, commitOk |-> TRUE],
     [openOk |-> TRUE, fail |-> IF every THEN 1..n ELSE {1}, commitOk |-> TRUE]}

\* Runs of the script, one after the other, against a topology that does not
\* change: init_db, polling cycles, the history view.
NextRuns ==
    \/ \E o \in InitDbOutcomes : InitDb(o)
    \/ NewSession
    \/ \E o \in HistoryOutcomes, laterFirst \in BOOLEAN :
          HistoryView(o, laterFirst, "All", 1)
    \/ StartCycle(MaxCycles)
    \/ LocateTry("pong")
    \/ CheckConn
    \/ MastersQuery(world.masters)
    \/ BeginCluster
    \/ SlavesQuery(world.slaves)
    \/ ProbeNode(world.nodes[ni])
    \/ \E s \in NominalSaveOutcomes
                \cup MissingTableSave(Len(node_infos), TRUE),
          dt \in {0, 1} : SaveHealth(s, dt)
    \/ Display
    \/ \E o \in CycleSentinelOutcomes : ProbeSentinel(o)
    \/ \E s \in NominalSaveOutcomes
                \cup MissingTableSave(Len(sentinel_infos), FALSE) :
          SaveSentinel(s, 0)
    \/ Render

SpecRuns == InitRuns /\ [][NextRuns]_vars

\* outcomes of the store calls of a save: all succeed, or connect() raises
OpenSaveOutcomes ==
    {[openOk |-> ok, fail |-> {}, commitOk |-> TRUE] : ok \in BOOLEAN}

\* a Sentinel answers its probe, or the probe raises
LiveSentinelOutcomes == {o \in SentinelOutcomes : o.raised} \cup CycleSentinelOutcomes

\* One cycle in which every network call and every save may fail.
NextLive ==
    \/ StartCycle(1)
    \/ \E o \in LocateOutcomes : LocateTry(o)
    \/ CheckConn
    \/ \E r \in MastersReplies : MastersQuery(r)
    \/ BeginCluster
    \/ \E r \in SlavesReplies : SlavesQuery(r)
    \/ \E o \in CycleNodeOutcomes : ProbeNode(o)
    \/ \E s \in OpenSaveOutcomes : SaveHealth(s, 0)
    \/ Display
    \/ \E o \in LiveSentinelOutcomes : ProbeSentinel(o)
    \/ \E s \in OpenSaveOutcomes : SaveSentinel(s, 0)
    \/ Render

\* The script's thread is scheduled as long as it has a step to take, and
\* every call it makes returns or raises: the network calls have a socket
\* timeout (main.py:178, 268, 333) and the store calls SQLite's busy timeout.
SpecLive == Init /\ [][NextLive]_vars /\ WF_vars(NextLive)

----------------------------------------------------------------------------
(* A second session: main.py:481-486 run by another browser session *)

\* Streamlit runs the script of each browser session in a thread of its own,
\* and the sessions share the database file.  Of the second session's
\* cycle only the steps that touch the file are kept, its saves; what it
\* probes is the same topology, world.

\* the second session's script run starts a cycle
PeerStartCycle(limit) ==
    /\ peer_pc = "Idle"
    /\ peer_cycle < limit
    /\ peer_cycle' = peer_cycle + 1
    /\ peer_mi' = 1
    /\ peer_pc' = "SaveHealth"
    /\ UNCHANGED <<pc, outcome, cycle, tables, locate, monitored_masters, mi,
                   cluster, reports, sentinels, lastCall, lastSave, db_init,
                   schema, history, world, writes>>

\* node_infos of the second session for its current master (main.py:263-292)
PeerNodeInfos(m) ==
    [k \in 1..(world.slaves.n + 1) |->
       NodeProbe(AllNodes(m, world.slaves.n)[k], world.nodes[k])]

\* main.py:297 in the second session: save_health_data for its current
\* master, in one transaction
PeerSaveHealth(dt) ==
    /\ peer_pc = "SaveHealth"
    /\ LET m == world.masters.masters[peer_mi]
           t == Clock(dt)
           rows == HealthRows(t, m.name, [host |-> m.ip, port |-> m.port],
                              PeerNodeInfos(m))
       IN  /\ now' = t
           /\ health_snapshots' =
                 save_health_data(health_snapshots, rows, TRUE, {}, TRUE)
           /\ writes' = Append(writes,
                 SaveLog(2, peer_cycle, "health_snapshots", health_snapshots,
                         health_snapshots'))
    /\ peer_mi' = peer_mi + 1
    /\ peer_pc' = IF peer_mi = Len(world.masters.masters) THEN "SaveSentinel"
                  ELSE "SaveHealth"
    /\ UNCHANGED <<pc, outcome, cycle, sentinel_snapshots, locate,
                   monitored_masters, mi, cluster, reports, sentinels,
                   lastCall, lastSave, db_init, schema, history, world,
                   peer_cycle>>

\* sentinel_infos of the second session (main.py:331-349)
PeerSentinelInfos ==
    [i \in DOMAIN SENTINELS |->
       SentinelProbe(SENTINELS[i], CHOOSE o \in CycleSentinelOutcomes : TRUE)]

\* main.py:351-352 in the second session: save_sentinel_data, then its run
\* is over
PeerSaveSentinel(dt) ==
    /\ peer_pc = "SaveSentinel"
    /\ LET t == Clock(dt)
           rows == SentinelRows(t, PeerSentinelInfos)
       IN  /\ now' = t
           /\ sentinel_snapshots' =
                 save_sentinel_data(sentinel_snapshots, rows, TRUE, {}, TRUE)
           /\ writes' = Append(writes,
                 SaveLog(2, peer_cycle, "sentinel_snapshots",
                         sentinel_snapshots, sentinel_snapshots'))
    /\ peer_pc' = "Idle"
    /\ UNCHANGED <<pc, outcome, cycle, health_snapshots, locate,
                   monitored_masters, mi, cluster, reports, sentinels,
                   lastCall, lastSave, db_init, schema, history, world,
                   peer_mi, peer_cycle>>

\* a topology of two masters that stays as it is
SessionWorlds ==
    {[w EXCEPT !.masters = [raised |-> FALSE, masters |-> MasterPool]] :
        w \in {v \in Worlds : ~v.slaves.raised}}

\* both sessions have run init_db; the file is new
InitSessions ==
    \E w \in SessionWorlds : InitSession(<<>>, <<>>, TRUE, AllTables, w)

\* Two browser sessions, each running one cycle against the same topology
\* and writing to the same database file.
NextSessions ==
    \/ StartCycle(1)
    \/ LocateTry("pong")
    \/ CheckConn
    \/ MastersQuery(world.masters)
    \/ BeginCluster
    \/ SlavesQuery(world.slaves)
    \/ ProbeNode(world.nodes[ni])
    \/ \E s \in NominalSaveOutcomes, dt \in {0, 1} : SaveHealth(s, dt)
    \/ Display
    \/ \E o \in CycleSentinelOutcomes : ProbeSentinel(o)
    \/ \E s \in NominalSaveOutcomes, dt \in {0, 1} : SaveSentinel(s, dt)
    \/ Render
    \/ PeerStartCycle(1)
    \/ \E dt \in {0, 1} : PeerSaveHealth(dt)
    \/ \E dt \in {0, 1} : PeerSaveSentinel(dt)

SpecSessions == InitSessions /\ [][NextSessions]_vars

----------------------------------------------------------------------------
(* Properties *)

\* the cycle has shown no cluster, probed no Sentinel and written no row (both
\* tables are empty when the cycle starts)
NothingProduced ==
    /\ reports = <<>>
    /\ sentinel_infos = <<>>
    /\ health_snapshots = <<>>
    /\ sentinel_snapshots = <<>>

AllFailed(log) == \A j \in 1..Len(log) : log[j].result # "pong"

\* C1: a cycle goes past the Sentinel location only with a connection; when
\* every configured Sentinel failed the check, or sentinel_masters() raised,
\* the cycle has returned (no exception left it) with no cluster report, no
\* Sentinel snapshot and no row in either table.
C1_FatalCycle ==
    /\ pc \notin {"Idle", "Locate", "Located"} => sentinel_conn # 0
    /\ (pc = "Idle" /\ cycle > 0 /\ sentinel_conn = 0) =>
          /\ outcome = "NoSentinel"
          /\ Len(tried) = Len(SENTINELS)
          /\ AllFailed(tried)
    /\ (lastCall.kind = "masters" /\ lastCall.outcomes.raised) =>
          (pc = "Idle" /\ outcome = "MastersError")
    /\ outcome \in {"NoSentinel", "MastersError"} =>
          (pc = "Idle" /\ NothingProduced)

\* C1 witness: both Sentinels were tried, neither passed, the cycle is over
C1_Witness ==
    /\ pc = "Idle"
    /\ outcome = "NoSentinel"
    /\ Len(tried) = Len(SENTINELS)
    /\ tried[1].result = "raise"
    /\ tried[Len(tried)].result = "falsy"

\* C2: when get_sentinel_connection returns, the candidates contacted are the
\* first ones of SENTINELS, in order and once each; it returns the first one
\* whose ping succeeded, having contacted none after it; and it returns None
\* exactly when every candidate of SENTINELS was contacted and failed.
C2_SentinelLocation ==
    /\ pc \in {"Locate", "Located"} =>
          /\ Len(tried) <= Len(SENTINELS)
          /\ \A i \in 1..Len(tried) : tried[i].candidate = i
    /\ pc = "Locate" => (AllFailed(tried) /\ idx = Len(tried) + 1)
    /\ pc = "Located" =>
          /\ sentinel_conn # 0 =>
                /\ Len(tried) = sentinel_conn
                /\ tried[sentinel_conn].result = "pong"
                /\ AllFailed(Prefix(tried, sentinel_conn - 1))
          /\ sentinel_conn = 0 <=>
                (Len(tried) = Len(SENTINELS) /\ AllFailed(tried))

\* C2 witness: the first candidate failed and the second was returned
C2_Witness ==
    /\ pc = "Located"
    /\ sentinel_conn = 2
    /\ tried[1].result = "falsy"

\* the cycle is over and sentinel_masters() had listed masters
CycleOverMasters == pc = "Idle" /\ cycle > 0 /\ monitored_masters # <<>>

DiscoveryFailed(r) == r.masterStatus = "Discovery Error"

\* the report of a master whose nodes were all probed
FullReport(r) == Len(r.nodeSnapshots) = r.replicaCount + 1

\* C3 (as claimed): once the cycle is over, if the replica discovery of some
\* master raised, that master's report has status Discovery Error and no node
\* snapshot, and every master of the cycle, before or after it, has its
\* report: in full unless its own discovery raised.
C3_DiscoveryIsolation ==
    (CycleOverMasters /\ \E i \in 1..Len(reports) : DiscoveryFailed(reports[i])) =>
       /\ \A i \in 1..Len(reports) :
             DiscoveryFailed(reports[i]) => reports[i].nodeSnapshots = <<>>
       /\ Len(reports) = Len(monitored_masters)
       /\ \A j \in 1..Len(reports) :
             /\ reports[j].clusterName = monitored_masters[j].name
             /\ ~DiscoveryFailed(reports[j]) => FullReport(reports[j])

AllProbesFailed(r) ==
    /\ r.nodeSnapshots # <<>>
    /\ \A k \in 1..Len(r.nodeSnapshots) : r.nodeSnapshots[k].Health = "Down/Error"

\* C4 (as claimed): once a cycle whose masters query listed masters is over,
\* every listed master has exactly one report, in the order listed; a report
\* whose node probes all failed has status Down/Error, the replica count
\* discovered, and no key or client count in any node snapshot.
C4_ReportPerMaster ==
    CycleOverMasters =>
       /\ Len(reports) = Len(monitored_masters)
       /\ \A j \in 1..Len(reports) :
             /\ reports[j].clusterName = monitored_masters[j].name
             /\ AllProbesFailed(reports[j]) =>
                   /\ reports[j].masterStatus = "Down/Error"
                   /\ FullReport(reports[j])
                   /\ \A k \in 1..Len(reports[j].nodeSnapshots) :
                         /\ reports[j].nodeSnapshots[k].Keys = NA
                         /\ reports[j].nodeSnapshots[k].Clients = NA

EmptyMastersReply ==
    /\ lastCall.kind = "masters"
    /\ ~lastCall.outcomes.raised
    /\ lastCall.outcomes.masters = <<>>

\* C5 (as claimed): a cycle whose masters query listed no master is over only
\* after it probed every configured Sentinel and saved the Sentinel batch.
C5_EmptyProceeds ==
    (pc = "Idle" /\ EmptyMastersReply) =>
       (outcome = "Done" /\ Len(sentinel_infos) = Len(SENTINELS))

\* C5 (amended): a masters query that lists no master ends the cycle as an
\* erroring one does: the cycle returns at once, with no cluster report, no
\* Sentinel probed and no row written.
C5_EmptyEndsCycle ==
    /\ EmptyMastersReply => (pc = "Idle" /\ outcome = "NoMasters")
    /\ outcome = "NoMasters" => (pc = "Idle" /\ NothingProduced /\ si = 1)
    /\ (lastCall.kind = "masters" /\ pc # "Idle") =>
          (~lastCall.outcomes.raised /\ lastCall.outcomes.masters # <<>>)

\* C5 witness: the cycle is over after a reply listing no master
C5_Witness == pc = "Idle" /\ EmptyMastersReply /\ outcome = "NoMasters"

\* the snapshot the probe just made
LastNodeSnapshot == node_infos[Len(node_infos)]

\* C6: after every node probe, whatever its three calls did, the snapshot is
\* Healthy iff all three returned and the ping was truthy, Unhealthy iff all
\* three returned and the ping was falsy, Down/Error iff one of them raised;
\* the snapshot is of the node probed, and the cycle goes on (the probe
\* raised nothing).
C6_NodeHealth ==
    lastCall.kind = "node" =>
       LET o == lastCall.outcomes
           returned == o.info # "raise" /\ o.dbsize # "raise" /\ o.ping # "raise"
       IN  /\ LastNodeSnapshot.Host = lastCall.target.host
           /\ LastNodeSnapshot.Port = lastCall.target.port
           /\ LastNodeSnapshot.Role = lastCall.target.role
           /\ LastNodeSnapshot.Health = "Healthy" <=> (returned /\ o.ping = "true")
           /\ LastNodeSnapshot.Health = "Unhealthy" <=> (returned /\ o.ping = "false")
           /\ LastNodeSnapshot.Health = "Down/Error" <=> ~returned
           /\ pc \in {"Probe", "SaveHealth"}
           /\ outcome = "Running"

\* C6 witness: a node answered info and dbsize and a falsy ping
C6_Witness ==
    /\ lastCall.kind = "node"
    /\ lastCall.outcomes = [info |-> "sparse", dbsize |-> "ok", ping |-> "false"]
    /\ LastNodeSnapshot.Health = "Unhealthy"

DownRows == {i \in 1..Len(health_snapshots) : health_snapshots[i].health = "Down/Error"}

\* C7 (as claimed): the row of a node whose probe failed has keys NULL,
\* clients NULL and no memory value.
C7_DownRowAllAbsent ==
    \A i \in DownRows :
       /\ health_snapshots[i].keys = NULL
       /\ health_snapshots[i].clients = NULL
       /\ health_snapshots[i].memory = NULL

\* C7 (amended): the snapshot of a node whose probe failed has 'n/a' for keys,
\* clients and memory; its row has keys NULL and clients NULL, and the
\* placeholder 'n/a' in memory.
C7_DownRowMemoryPlaceholder ==
    /\ \A k \in 1..Len(node_infos) :
          node_infos[k].Health = "Down/Error" =>
             /\ node_infos[k].Keys = NA
             /\ node_infos[k].Clients = NA
             /\ node_infos[k].Memory = NA
    /\ \A i \in DownRows :
          /\ health_snapshots[i].keys = NULL
          /\ health_snapshots[i].clients = NULL
          /\ health_snapshots[i].memory = NA

\* C7 witness: the row of a failed master probe is in the table
C7_Witness ==
    \E i \in DownRows : health_snapshots[i].role = "Master"

\* the snapshot the Sentinel probe just made
LastSentinelSnapshot == sentinel_infos[Len(sentinel_infos)]

\* C8: the Sentinel phase makes one snapshot per configured Sentinel, in the
\* order of SENTINELS; a probe that raises gives status Error, 0 masters,
\* is_tilt 1 and 0 scripts, and the phase goes on to the next Sentinel; a
\* Sentinel answering sentinel_tilt = 1 gets is_tilt 1.
C8_SentinelProbing ==
    /\ pc = "Sentinels" => Len(sentinel_infos) = si - 1
    /\ (pc \in {"SaveSentinel", "Render"} \/ (pc = "Idle" /\ outcome = "Done")) =>
          Len(sentinel_infos) = Len(SENTINELS)
    /\ Len(sentinel_infos) <= Len(SENTINELS)
    /\ \A i \in 1..Len(sentinel_infos) :
          /\ sentinel_infos[i].Host = SENTINELS[i].host
          /\ sentinel_infos[i].Port = SENTINELS[i].port
    /\ lastCall.kind = "sentinel" =>
          LET o == lastCall.outcomes
              raises == o.raised \/ o.ping = "raise"
          IN  /\ raises =>
                    /\ LastSentinelSnapshot.Status = "Error"
                    /\ LastSentinelSnapshot.masters_monitored = 0
                    /\ LastSentinelSnapshot.is_tilt = 1
                    /\ LastSentinelSnapshot.running_scripts = 0
              /\ (~raises /\ Get(o.stats, "sentinel_tilt", 0) = 1) =>
                    LastSentinelSnapshot.is_tilt = 1
              /\ pc \in {"Sentinels", "SaveSentinel"}
              /\ outcome = "Running"

\* C8 witness: the first Sentinel's probe raised, the second was probed and
\* reports tilt, after a cluster whose master is down
C8_Witness ==
    /\ Len(sentinel_infos) = 2
    /\ sentinel_infos[1].Status = "Error"
    /\ sentinel_infos[2].Status = "Healthy"
    /\ sentinel_infos[2].is_tilt = 1
    /\ reports # <<>>
    /\ reports[1].masterStatus = "Down/Error"

\* the rows of a batch whose INSERT did not fail, in batch order
Kept(rows, fail) ==
    LET keep == SelectSeq([i \in 1..Len(rows) |-> i], LAMBDA i : i \notin fail)
    IN  [k \in 1..Len(keep) |-> rows[keep[k]]]

\* C9: in save_health_data, once the store is open, INSERT is called for every
\* row of the batch, once and in order, whichever of them fail; after a
\* commit the table is the table before, followed by the rows whose INSERT
\* succeeded, in batch order; when connect() or commit() fails the table is
\* as before, and the save has returned.
C9_HealthRowIsolation ==
    lastSave.table = "health_snapshots" =>
       /\ Len(lastSave.rows) = Len(node_infos)
       /\ lastSave.attempted =
             IF lastSave.openOk THEN [i \in 1..Len(lastSave.rows) |-> i] ELSE <<>>
       /\ health_snapshots =
             IF lastSave.openOk /\ lastSave.commitOk
             THEN lastSave.pre \o Kept(lastSave.rows, lastSave.fail)
             ELSE lastSave.pre
       /\ pc = "Display"

\* C9 witness: of a batch of two rows the first INSERT failed, and the second
\* row was committed after the row the table held
C9_Witness ==
    /\ lastSave.table = "health_snapshots"
    /\ Len(lastSave.rows) = 2
    /\ lastSave.fail = {1}
    /\ lastSave.commitOk
    /\ Len(health_snapshots) = 2
    /\ health_snapshots[1] = OldHealthRow
    /\ health_snapshots[2].role = "Slave"

\* C10 (as claimed): in save_sentinel_data, once the store is open, INSERT is
\* called for every row of the batch whichever of them fail, and after a
\* commit the rows whose INSERT succeeded are in the table.
C10_SentinelRowIsolation ==
    (lastSave.table = "sentinel_snapshots" /\ lastSave.openOk) =>
       /\ lastSave.attempted = [i \in 1..Len(lastSave.rows) |-> i]
       /\ lastSave.commitOk =>
             sentinel_snapshots = lastSave.pre \o Kept(lastSave.rows, lastSave.fail)

\* the block Display shows for the current master
CurrentReport ==
    [clusterName |-> monitored_masters[mi].name, masterStatus |-> master_status,
     replicaCount |-> slave_count, masterKeyCount |-> keys_count,
     masterMemory |-> total_memory, nodeSnapshots |-> node_infos]

\* C11 (as claimed): a save returns whatever its store calls did and leaves
\* what the cycle collected as it was; after a save that committed nothing
\* the cluster's report is shown as collected and the cycle goes on to the
\* next master, and after the Sentinel batch's save the cycle completes.
C11_BestEffort ==
    [][ /\ pc = "SaveHealth" =>
             /\ pc' = "Display"
             /\ outcome' = "Running"
             /\ <<cluster, mi, monitored_masters>>' = <<cluster, mi, monitored_masters>>
        /\ (pc = "Display" /\ ~lastSave.committed) =>
             /\ reports' = Append(reports, CurrentReport)
             /\ pc' = "Cluster"
             /\ mi' = mi + 1
        /\ pc = "SaveSentinel" =>
             /\ pc' = "Render"
             /\ outcome' = "Running"
             /\ sentinel_infos' = sentinel_infos
        /\ (pc = "Render" /\ ~lastSave.committed) =>
             (pc' = "Idle" /\ outcome' = "Done") ]_vars

\* the table after a step holds the rows it held before, unchanged and in
\* their places
Extends(before, after) ==
    /\ Len(after) >= Len(before)
    /\ SubSeq(after, 1, Len(before)) = before

\* C12: in every step of cycles, init_db calls and history views, each table
\* keeps the rows it has, unchanged and in place, and the unfiltered node
\* history never returns fewer rows than before; a call of init_db changes no
\* row and removes no table, and changes nothing when both tables exist; a
\* run of the history view changes neither table.
C12_AppendOnly ==
    [][ /\ Extends(health_snapshots, health_snapshots')
        /\ Extends(sentinel_snapshots, sentinel_snapshots')
        /\ \A laterFirst \in BOOLEAN :
              Len(get_redis_history_data(health_snapshots', laterFirst))
                 >= Len(get_redis_history_data(health_snapshots, laterFirst))
        /\ (~db_init /\ db_init') =>
              /\ health_snapshots' = health_snapshots
              /\ sentinel_snapshots' = sentinel_snapshots
              /\ schema \subseteq schema'
              /\ schema = AllTables => schema' = schema
        /\ history' # history =>
              <<health_snapshots, sentinel_snapshots, schema>>'
                 = <<health_snapshots, sentinel_snapshots, schema>> ]_vars

\* C12 witness: after init_db ran on a file that held a row, a cycle added
\* rows behind it, and the history view shows them all
C12_Witness ==
    /\ db_init
    /\ writes # <<>>
    /\ Len(health_snapshots) > 1
    /\ health_snapshots[1] = OldHealthRow
    /\ Len(history_df) = Len(health_snapshots)

\* the number of times the row r is in rows
Count(rows, r) == Cardinality({i \in DOMAIN rows : rows[i] = r})

TimestampDescending(df) ==
    \A i \in 1..(Len(df) - 1) : df[i].timestamp >= df[i + 1].timestamp

\* the node history is shown
HistoryShown == history_df # <<>>

\* C13 (as claimed): when the history view is shown with the filter set to
\* the name c of a cluster of the stored history, it lists exactly the
\* stored rows whose cluster_name is c, each as often as it is stored;
\* without a filter it lists every stored row; in both cases the timestamps
\* do not increase down the list.
C13_FilterCorrect ==
    HistoryShown =>
       /\ TimestampDescending(history_df)
       /\ \A i \in DOMAIN health_snapshots :
             LET r == health_snapshots[i]
             IN  Count(history_df, r) =
                    IF selected_cluster \in unique_clusters(health_snapshots)
                       /\ r.cluster_name # selected_cluster
                    THEN 0
                    ELSE Count(health_snapshots, r)
       /\ \A i \in DOMAIN history_df : Count(health_snapshots, history_df[i]) > 0

RECURSIVE Concat(_, _)
Concat(seqs, i) == IF i > Len(seqs) THEN <<>> ELSE seqs[i] \o Concat(seqs, i + 1)

\* the stored rows the filter chosen lets through: all of them for 'All'
PassFilter ==
    {i \in DOMAIN health_snapshots :
        selected_cluster = "All"
        \/ health_snapshots[i].cluster_name = selected_cluster}

\* C14: when the history view is shown, the total count is the number of
\* stored rows that pass the filter and the number of pages is the least
\* that holds them; the page shown is one of them; every page holds at
\* least one and at most PAGE_SIZE rows, and the pages, put one after the
\* other in page order, are the filtered history as ordered: no row twice,
\* none left out.
C14_Pagination ==
    HistoryShown =>
       LET pages == [p \in 1..total_pages |-> PageOf(history_df, p)]
       IN  /\ total_records = Cardinality(PassFilter)
           /\ total_records = Len(history_df)
           /\ (total_pages - 1) * PAGE_SIZE < total_records
           /\ total_records <= total_pages * PAGE_SIZE
           /\ selected_page \in 1..total_pages
           /\ page_df = pages[selected_page]
           /\ \A p \in 1..total_pages :
                 Len(pages[p]) >= 1 /\ Len(pages[p]) <= PAGE_SIZE
           /\ Concat(pages, 1) = history_df

\* C14 witness: of a stored history with rows of two clusters, the second
\* and last page of one cluster's rows is shown
C14_Witness ==
    /\ HistoryShown
    /\ selected_cluster = "cache-01"
    /\ total_records < Len(health_snapshots)
    /\ total_pages = 2
    /\ selected_page = 2
    /\ Len(page_df) < PAGE_SIZE

\* the masters of this cycle's reply that bear the name of the row's cluster
MastersNamed(name) ==
    {j \in DOMAIN monitored_masters : monitored_masters[j].name = name}

\* the row is of the snapshot info, taken under the master m
RowOfSnapshot(row, m, info) ==
    /\ row.cluster_name = m.name
    /\ row.master_host = m.ip
    /\ row.master_port = m.port
    /\ row.host = info.Host
    /\ row.port = info.Port
    /\ row.role = info.Role
    /\ row.health = info.Health

\* C15: every row of a batch is of the snapshot in its place in node_infos,
\* taken under the master being iterated; every row stored in the cycle
\* carries the name, host and port of exactly one master of the cycle's
\* reply; the rows of a cluster whose block has been shown are of the
\* snapshots of that block; a Master row's own host and port are its
\* master_host and master_port.
C15_ClusterMembership ==
    /\ lastSave.table = "health_snapshots" =>
          /\ Len(lastSave.rows) = Len(node_infos)
          /\ \A i \in DOMAIN lastSave.rows :
                RowOfSnapshot(lastSave.rows[i], monitored_masters[mi],
                              node_infos[i])
    /\ \A i \in DOMAIN health_snapshots :
          LET row == health_snapshots[i]
          IN  /\ Cardinality(MastersNamed(row.cluster_name)) = 1
              /\ \A j \in MastersNamed(row.cluster_name) :
                    /\ row.master_host = monitored_masters[j].ip
                    /\ row.master_port = monitored_masters[j].port
                    /\ j <= Len(reports) =>
                          \E k \in DOMAIN reports[j].nodeSnapshots :
                             RowOfSnapshot(row, monitored_masters[j],
                                           reports[j].nodeSnapshots[k])
              /\ row.role = "Master" =>
                    (row.host = row.master_host /\ row.port = row.master_port)

\* C15 witness: the table holds rows of both clusters, among them the row
\* of a replica of the second
C15_Witness ==
    /\ \E i \in DOMAIN health_snapshots :
          health_snapshots[i].cluster_name = "orders"
    /\ \E i \in DOMAIN health_snapshots :
          /\ health_snapshots[i].cluster_name = "cache-01"
          /\ health_snapshots[i].role = "Slave"
          /\ health_snapshots[i].master_port = 6380

\* the saves of node batches that stored rows, in the order made
HealthWrites ==
    SelectSeq(writes, LAMBDA w : w.table = "health_snapshots" /\ w.rows > 0)

\* two consecutive cycles have each stored their node batch
TwoCyclesStored ==
    /\ Len(HealthWrites) = 2
    /\ HealthWrites[1].cycle + 1 = HealthWrites[2].cycle

\* the places in health_snapshots of the rows of the later and of the
\* earlier of the two batches: the later batch is the table's end
LaterBatch ==
    (Len(health_snapshots) - HealthWrites[2].rows + 1)..Len(health_snapshots)
EarlierBatch ==
    (Len(health_snapshots) - HealthWrites[2].rows - HealthWrites[1].rows + 1)
       ..(Len(health_snapshots) - HealthWrites[2].rows)

WithoutTimestamp(row) == [row EXCEPT !.timestamp = 0]

\* the places of the table's rows, in the order the node-history query
\* returns the rows
QueryOrder(laterFirst) ==
    OrderByTimestampDesc(
       [i \in DOMAIN health_snapshots |->
          [place |-> i, timestamp |-> health_snapshots[i].timestamp]],
       laterFirst, 1, <<>>)

\* the rank in the query's result of the row stored at place i
RankOf(laterFirst, i) ==
    CHOOSE k \in DOMAIN QueryOrder(laterFirst) :
       QueryOrder(laterFirst)[k].place = i

\* C16 (as claimed): when two consecutive cycles against the same topology
\* with the same probe outcomes have stored their node batches, the batches
\* are equal row by row but for the timestamp, both are in the table, and
\* the node-history query returns every row of the later batch before every
\* row of the earlier batch.
C16_RepeatedCycle ==
    TwoCyclesStored =>
       /\ HealthWrites[1].rows = HealthWrites[2].rows
       /\ \A k \in 0..(HealthWrites[2].rows - 1) :
             WithoutTimestamp(health_snapshots[Len(health_snapshots) - k]) =
                WithoutTimestamp(
                   health_snapshots[Len(health_snapshots) - k
                                    - HealthWrites[2].rows])
       /\ \A laterFirst \in BOOLEAN :
             \A i \in LaterBatch, j \in EarlierBatch :
                RankOf(laterFirst, i) < RankOf(laterFirst, j)

\* the steps of one pass of the loop over masters at most: the pass begins,
\* one replica query, one probe for the master and for each replica, one
\* save, the block shown
StepsPerMaster == 4 + (MaxSlaves + 1)

\* the steps of the Sentinel phase and the end of the cycle: the loop over
\* masters ends, one probe per configured Sentinel, one save, the rendering
StepsOfSentinels == 3 + Len(SENTINELS)

\* the steps a cycle can still take from where it is: a bound that counts
\* each call the cycle has still to make once
Remaining ==
    LET later == (Len(monitored_masters) - mi) * StepsPerMaster + StepsOfSentinels
    IN  CASE pc = "Idle" -> 0
          [] pc = "Locate" ->
                (Len(SENTINELS) - idx + 1) + 2 + Len(MasterPool) * StepsPerMaster
                + StepsOfSentinels
          [] pc = "Located" -> 2 + Len(MasterPool) * StepsPerMaster + StepsOfSentinels
          [] pc = "Masters" -> 1 + Len(MasterPool) * StepsPerMaster + StepsOfSentinels
          [] pc = "Cluster" -> later + StepsPerMaster
          [] pc = "Slaves" -> later + StepsPerMaster - 1
          [] pc = "Probe" -> later + 2 + (Len(all_nodes) - ni + 1)
          [] pc = "SaveHealth" -> later + 2
          [] pc = "Display" -> later + 1
          [] pc = "Sentinels" -> 2 + (Len(SENTINELS) - si + 1)
          [] pc = "SaveSentinel" -> 2
          [] pc = "Render" -> 1

\* C17: whatever each network call and each store write does, a cycle that
\* has started returns to Idle; every step of it lowers the count of the
\* steps it can still take, a count that has one step for each locate
\* attempt, masters query, replica query, node probe, Sentinel probe and
\* save still to make, so no call is made again; the count stays between
\* 0 and its value when the cycle starts.
C17_Termination ==
    /\ (pc # "Idle") ~> (pc = "Idle")
    /\ [][pc # "Idle" => Remaining' < Remaining]_vars
    /\ [](Remaining >= 0 /\ (pc = "Idle" <=> Remaining = 0))

\* C17 witness: a cycle over two masters has returned after the probes of
\* the first master's nodes, the save of its batch and the probe of the
\* first Sentinel all failed
C17_Witness ==
    /\ pc = "Idle"
    /\ outcome = "Done"
    /\ Len(reports) = 2
    /\ AllProbesFailed(reports[1])
    /\ health_snapshots # <<>>
    /\ health_snapshots[1].cluster_name = "cache-01"
    /\ sentinel_infos[1].Status = "Error"
    /\ sentinel_snapshots = <<>>

\* the snapshots are of the first nodes of the master m with n replicas, in
\* order: the master, then the replicas as discovered
SnapshotsInOrder(infos, m, n) ==
    /\ Len(infos) <= n + 1
    /\ \A k \in DOMAIN infos :
          /\ infos[k].Role = IF k = 1 THEN "Master" ELSE "Slave"
          /\ infos[k].Host = AllNodes(m, n)[k].host
          /\ infos[k].Port = AllNodes(m, n)[k].port

SameCycle(i, k) ==
    /\ writes[i].session = writes[k].session
    /\ writes[i].cycle = writes[k].cycle

\* C19 (as claimed): the saves of one cycle are not parted by a save of
\* another cycle, of the same session or of another: between two saves of a
\* cycle every save is of that cycle.
C19_SingleWriter ==
    \A i \in DOMAIN writes, k \in DOMAIN writes :
       (i < k /\ SameCycle(i, k)) =>
          \A j \in i..k : SameCycle(i, j)

\* the calls of the save of the named table made by the current cycle
SavesOfCycle(name) ==
    SelectSeq(writes, LAMBDA w : w.session = 1 /\ w.cycle = cycle
                                   /\ w.table = name)

\* the masters of the list before place k that have an address: the
\* clusters the loop has a batch for (main.py:254)
Addressed(k) ==
    {j \in 1..Len(monitored_masters) :
        j < k /\ monitored_masters[j].ip # NULL /\ monitored_masters[j].port # 0}

\* every node of the current cluster has its snapshot: discovery listed the
\* nodes and the loop over them has ended, or discovery raised and there is
\* no node
ClusterProbed ==
    /\ Len(node_infos) = Len(all_nodes)
    /\ ni = Len(all_nodes) + 1
    /\ \A k \in DOMAIN node_infos :
          /\ node_infos[k].Host = all_nodes[k].host
          /\ node_infos[k].Port = all_nodes[k].port
    /\ all_nodes = <<>> => master_status = "Discovery Error"

\* a step that calls save_health_data, save_sentinel_data
HealthSaveStep ==
    /\ Len(writes') = Len(writes) + 1
    /\ writes'[Len(writes')].session = 1
    /\ writes'[Len(writes')].table = "health_snapshots"
SentinelSaveStep ==
    /\ Len(writes') = Len(writes) + 1
    /\ writes'[Len(writes')].session = 1
    /\ writes'[Len(writes')].table = "sentinel_snapshots"

\* C20: within a cycle, a cluster's batch is saved when all its nodes have
\* been probed, and it is the batch of all of them; the discovery of a
\* cluster starts when every cluster before it has been saved; a Sentinel is
\* probed when every cluster has been probed and saved; the Sentinel batch
\* is saved when every Sentinel has been probed, never twice in a cycle, and
\* once in a cycle that ends its Sentinel phase.
C20_PhaseOrdering ==
    /\ [][HealthSaveStep =>
            /\ pc = "SaveHealth"
            /\ ClusterProbed
            /\ Len(lastSave'.rows) = Len(all_nodes)
            /\ Len(SavesOfCycle("sentinel_snapshots")) = 0]_vars
    /\ [][(pc = "Slaves" /\ pc' # "Slaves") =>
            Len(SavesOfCycle("health_snapshots")) = Cardinality(Addressed(mi))]_vars
    /\ [][(sentinel_infos' # sentinel_infos /\ sentinel_infos' # <<>>) =>
            /\ mi > Len(monitored_masters)
            /\ Len(SavesOfCycle("health_snapshots")) =
                  Cardinality(Addressed(mi))
            /\ Len(SavesOfCycle("sentinel_snapshots")) = 0]_vars
    /\ [][SentinelSaveStep =>
            /\ Len(sentinel_infos) = Len(SENTINELS)
            /\ \A i \in DOMAIN SENTINELS :
                  /\ sentinel_infos[i].Host = SENTINELS[i].host
                  /\ sentinel_infos[i].Port = SENTINELS[i].port
            /\ Len(lastSave'.rows) = Len(SENTINELS)
            /\ Len(SavesOfCycle("sentinel_snapshots")) = 0]_vars
    /\ [](Len(SavesOfCycle("sentinel_snapshots")) <= 1)
    /\ []((pc = "Render" \/ (pc = "Idle" /\ outcome = "Done")) =>
            /\ Len(SavesOfCycle("sentinel_snapshots")) = 1
            /\ Len(SavesOfCycle("health_snapshots")) =
                  Cardinality(Addressed(Len(monitored_masters) + 1)))

\* a cycle over two clusters, one of them with a replica, has ended after
\* saving both batches and then the Sentinel batch
C20_Witness ==
    /\ pc = "Idle"
    /\ outcome = "Done"
    /\ Len(monitored_masters) = 2
    /\ \E r \in DOMAIN reports : Len(reports[r].nodeSnapshots) >= 2
    /\ Len(SavesOfCycle("health_snapshots")) = 2
    /\ Len(SavesOfCycle("sentinel_snapshots")) = 1
    /\ writes[Len(writes)].table = "sentinel_snapshots"

\* the snapshots of a report that have the Master role
MasterSnapshots(report) ==
    {k \in DOMAIN report.nodeSnapshots : report.nodeSnapshots[k].Role = "Master"}

\* C21: in every cluster report the master status is "Discovery Error"
\* exactly when the report has no node snapshot; a report with snapshots
\* has one snapshot of the Master role, and its master status is that
\* snapshot's health, whatever the health of the replicas.
C21_MasterStatus ==
    \A r \in DOMAIN reports :
       LET report == reports[r]
       IN  /\ report.masterStatus = "Discovery Error"
                 <=> report.nodeSnapshots = <<>>
           /\ report.nodeSnapshots # <<>> =>
                 /\ MasterSnapshots(report) = {1}
                 /\ report.masterStatus = report.nodeSnapshots[1].Health

\* a report whose master is down while a replica is healthy
C21_Witness ==
    \E r \in DOMAIN reports :
       /\ Len(reports[r].nodeSnapshots) >= 2
       /\ reports[r].masterStatus = "Down/Error"
       /\ \E k \in DOMAIN reports[r].nodeSnapshots :
             /\ reports[r].nodeSnapshots[k].Role = "Slave"
             /\ reports[r].nodeSnapshots[k].Health = "Healthy"

====
